---- MODULE Spec2Model ----
(***************************************************************************)
(* Model of wger's management command sync-exercises                       *)
(* (wger/exercises/management/commands/sync-exercises.py).                 *)
(*                                                                         *)
(* The command pulls categories, muscles, equipment, exercises and the     *)
(* deletion log from a remote wger instance over a paginated JSON API and  *)
(* reconciles them into the local database.  The local database and the    *)
(* command object are the state; every loop iteration of every sync        *)
(* routine is one step, so that a run can be observed (and can abort)      *)
(* between two items.                                                      *)
(***************************************************************************)
EXTENDS Integers, Sequences, FiniteSets, TLC

\* ------------------------------------------------------------------ bounds

\* Highest id of a category / muscle / equipment row on the remote instance.
MaxRefs == 2
\* Largest page size the remote instance may answer with.
MaxPageSize == 2
\* Longest remote deletion log.
MaxLog == 2
\* How many times in a row the operator invokes the command.
MaxRuns == 2

\* ------------------------------------------------------------- constants

\* A NULL foreign key (Django primary keys start at 1).
NULL == 0

EXERCISE_API(base) == [base |-> base, path |-> "/api/v2/exerciseinfo/", page |-> 1]
DELETION_LOG_API(base) == [base |-> base, path |-> "/api/v2/deletion-log/", page |-> 1]
CATEGORY_API(base) == [base |-> base, path |-> "/api/v2/exercisecategory/", page |-> 1]
MUSCLE_API(base) == [base |-> base, path |-> "/api/v2/muscle/", page |-> 1]
EQUIPMENT_API(base) == [base |-> base, path |-> "/api/v2/equipment/", page |-> 1]

\* Command.remote_url, the class attribute the option defaults to.
DefaultRemoteUrl == [scheme |-> "https", host |-> "wger.de"]

\* DeletionLog.MODEL_* tags.
MODEL_BASE == "base"
MODEL_TRANSLATION == "translation"
MODEL_IMAGE == "image"
MODEL_VIDEO == "video"

\* ------------------------------------------------------------- utilities

Min(a, b) == IF a < b THEN a ELSE b

ToSet(s) == {s[i] : i \in 1..Len(s)}

\* The ids named by a JSON list of {"id": ...} objects.
Ids(list) == {list[i].id : i \in 1..Len(list)}

RECURSIVE SelectSeqBy(_, _)
\* The subsequence of s whose elements have their text in texts.
SelectSeqBy(s, texts) ==
    IF s = <<>> THEN <<>>
    ELSE IF Head(s).text \in texts
         THEN <<Head(s)>> \o SelectSeqBy(Tail(s), texts)
         ELSE SelectSeqBy(Tail(s), texts)

IsPrefix(s, t) == Len(s) <= Len(t) /\ s = SubSeq(t, 1, Len(s))

\* A uuid received from the remote instance, and one drawn locally by uuid4().
Uuid(n) == [ns |-> "remote", n |-> n]
Uuid4(pk) == [ns |-> "uuid4", n |-> pk]

\* ------------------------------------------------------ the remote instance

\* A page of an endpoint: the remote cuts its listing into pages of page_size.
Paginate(listing, page_size, url) ==
    LET lo == (url.page - 1) * page_size + 1
        hi == Min(url.page * page_size, Len(listing))
    IN  [results |-> SubSeq(listing, lo, hi),
         next    |-> IF hi < Len(listing)
                     THEN <<[url EXCEPT !.page = @ + 1]>>
                     ELSE <<>>]

RemoteCategory(i) == [id |-> i, name |-> "remote category"]
RemoteMuscle(i) ==
    [id |-> i, name |-> "remote muscle", name_en |-> "remote muscle en",
     is_front |-> TRUE, image_url_main |-> "main.svg",
     image_url_secondary |-> "secondary.svg"]
RemoteEquipment(i) == [id |-> i, name |-> "remote equipment"]

IdList(n) == [i \in 1..n |-> [id |-> i]]

\* One exerciseinfo object.  base_uuid is the remote base the translation
\* belongs to; the command never reads it.
RemoteExercise(n, k) ==
    [uuid |-> Uuid(n), base_uuid |-> Uuid(10),
     name |-> "remote name", description |-> "remote description",
     language |-> [id |-> 2], license |-> [id |-> 2],
     license_author |-> "remote author",
     category |-> [id |-> 1],
     equipment |-> IdList(k),
     muscles |-> IF k = 0 THEN <<>> ELSE <<[id |-> k]>>,
     muscles_secondary |-> IF k = 0 THEN <<[id |-> 1]>> ELSE <<>>]

\* The exercises the remote lists: each of two translations absent (-1) or
\* present with one of the association shapes 0..MaxRefs.
ExerciseListings ==
    { (IF a < 0 THEN <<>> ELSE <<RemoteExercise(1, a)>>)
        \o (IF b < 0 THEN <<>> ELSE <<RemoteExercise(2, b)>>)
      : a \in (-1)..MaxRefs, b \in (-1)..MaxRefs }

DeletionEntries ==
    << [uuid |-> Uuid(10), model_type |-> MODEL_BASE, comment |-> ""],
       [uuid |-> Uuid(2), model_type |-> MODEL_TRANSLATION, comment |-> "dup"],
       [uuid |-> Uuid(20), model_type |-> MODEL_IMAGE, comment |-> ""],
       [uuid |-> Uuid(30), model_type |-> MODEL_VIDEO, comment |-> ""] >>

RECURSIVE Pick(_, _)
\* The entries of DeletionEntries whose index is in S, in log order.
Pick(S, i) ==
    IF i > Len(DeletionEntries) THEN <<>>
    ELSE (IF i \in S THEN <<DeletionEntries[i]>> ELSE <<>>) \o Pick(S, i + 1)

DeletionLogs ==
    { Pick(S, 1) : S \in {T \in SUBSET (1..Len(DeletionEntries)) : Cardinality(T) <= MaxLog} }

RemoteServers ==
    { [page_size |-> ps,
       data |-> ("/api/v2/exercisecategory/" :> [i \in 1..n |-> RemoteCategory(i)])
             @@ ("/api/v2/muscle/" :> [i \in 1..n |-> RemoteMuscle(i)])
             @@ ("/api/v2/equipment/" :> [i \in 1..n |-> RemoteEquipment(i)])
             @@ ("/api/v2/exerciseinfo/" :> ex)
             @@ ("/api/v2/deletion-log/" :> dl)]
      : n \in 1..MaxRefs, ps \in 1..MaxPageSize,
        ex \in ExerciseListings, dl \in DeletionLogs }

\* --------------------------------------------------------- the local store

EmptyStore ==
    [categories |-> <<>>, muscles |-> <<>>, equipment |-> <<>>,
     bases |-> <<>>, exercises |-> <<>>, images |-> <<>>, videos |-> <<>>,
     base_seq |-> 0]

\* A database that already holds category, muscle and equipment 1.
RefStore ==
    [EmptyStore EXCEPT
       !.categories = (1 :> [name |-> "local category"]),
       !.muscles = (1 :> [name |-> "local muscle", name_en |-> "local muscle en",
                          is_front |-> FALSE]),
       !.equipment = (1 :> [name |-> "local equipment"])]

\* A database that also holds a base with a translation, an image and a
\* video, and a translation whose base is missing (wger issue 840).
ExerciseStore ==
    [RefStore EXCEPT
       !.categories = @ @@ (2 :> [name |-> "local category"]),
       !.bases = (1 :> [uuid |-> Uuid(10), category_id |-> 2, muscles |-> {1},
                        muscles_secondary |-> {1}, equipment |-> {1}]),
       !.exercises = (Uuid(2) :> [exercise_base |-> 1, name |-> "local name",
                                  description |-> "local description",
                                  language_id |-> 1, license_id |-> 1,
                                  license_author |-> "local author"])
                  @@ (Uuid(1) :> [exercise_base |-> NULL, name |-> "local name",
                                  description |-> "local description",
                                  language_id |-> 1, license_id |-> 1,
                                  license_author |-> "local author"]),
       !.images = (Uuid(20) :> [exercise_base |-> 1]),
       !.videos = (Uuid(30) :> [exercise_base |-> 1]),
       !.base_seq = 1]

LocalStores == {EmptyStore, RefStore, ExerciseStore}

\* The values --remote-url is given.
RemoteUrls ==
    { [scheme |-> "http", host |-> "localhost"],
      [scheme |-> "file", host |-> "wger.de"],
      [scheme |-> "https", host |-> ""] }

\* ------------------------------------------------------------------ state

VARIABLES
    options,     \* the parsed command line: remote_url, skip_delete
    remote,      \* the remote instance: its page size and what each endpoint lists
    remote_url,  \* Command.remote_url
    headers,     \* Command.headers
    db,          \* the local database, one field per table
    status,      \* idle, running, done, or the exception that ended the run
    stage,       \* the sync routine handle is in
    phase,       \* start: before the routine's first request; loop: in its loop
    result,      \* the decoded page the routine is looping over
    idx,         \* position of the next item of result['results']
    page,        \* the page counter of sync_exercises and delete_entries
    requests,    \* the HTTP GET requests issued in this run, in order
    stdout,      \* the lines written in this run, in order
    processed,   \* the items whose loop body has run to its end in this run
    run,         \* which invocation of the command this is
    snapshot     \* the database as it was when this invocation began

vars == <<options, remote, remote_url, headers, db, status, stage, phase, result,
          idx, page, requests, stdout, processed, run, snapshot>>

NoResult == [results |-> <<>>, next |-> <<>>]

Line(text, arg) == [text |-> text, arg |-> arg]

Init ==
    /\ options \in [remote_url : RemoteUrls, skip_delete : BOOLEAN]
    /\ remote \in RemoteServers
    /\ remote_url = DefaultRemoteUrl
    /\ headers = <<>>
    /\ db \in LocalStores
    /\ status = "idle"
    /\ stage = ""
    /\ phase = ""
    /\ result = NoResult
    /\ idx = 0
    /\ page = 0
    /\ requests = <<>>
    /\ stdout = <<>>
    /\ processed = <<>>
    /\ run = 1
    /\ snapshot = db

\* ------------------------------------------------------------------ handle

\* A validator that lets every value through.
URLValidatorAny(url) == TRUE

\* django.core.validators.URLValidator as handle uses it: an http(s)/ftp(s)
\* scheme and a host.
URLValidator(url) ==
    /\ url.scheme \in {"http", "https", "ftp", "ftps"}
    /\ url.host # ""

\* requests.get(url, headers=...).json() against the remote instance.
Get(url) == Paginate(remote.data[url.path], remote.page_size, url)

\* The order in which handle calls the sync routines; "" when it returns.
HandleNext(current, skip_delete) ==
    CASE current = "sync_categories" -> "sync_muscles"
      [] current = "sync_muscles" -> "sync_equipment"
      [] current = "sync_equipment" -> "sync_exercises"
      [] current = "sync_exercises" -> IF ~skip_delete THEN "delete_entries" ELSE ""
      [] OTHER -> ""

\* The first request of each routine.
StartUrl(routine) ==
    CASE routine = "sync_categories" -> CATEGORY_API(remote_url)
      [] routine = "sync_muscles" -> MUSCLE_API(remote_url)
      [] routine = "sync_equipment" -> EQUIPMENT_API(remote_url)
      [] routine = "sync_exercises" -> EXERCISE_API(remote_url)
      [] OTHER -> DELETION_LOG_API(remote_url)

StartLine(routine) ==
    CASE routine = "sync_categories" -> "*** Synchronizing categories..."
      [] routine = "sync_muscles" -> "*** Synchronizing muscles..."
      [] routine = "sync_equipment" -> "*** Synchronizing equipment..."
      [] routine = "sync_exercises" -> "*** Synchronizing exercises..."
      [] OTHER -> "*** Deleting exercises that were removed on the server..."

\* handle up to its first call: validate the URL, keep it, build the headers.
Handle ==
    /\ status = "idle"
    /\ IF URLValidator(options.remote_url)
       THEN /\ remote_url' = options.remote_url
            /\ headers' = [User_agent |-> "wger + requests"]
            /\ status' = "running"
            /\ stage' = "sync_categories"
            /\ phase' = "start"
       ELSE /\ status' = "CommandError"
            /\ UNCHANGED <<remote_url, headers, stage, phase>>
    /\ UNCHANGED <<options, remote, db, result, idx, page, requests, stdout,
                   processed, run, snapshot>>

\* A routine's opening lines: write its banner, fetch its first page.
Start(routine) ==
    /\ status = "running"
    /\ stage = routine
    /\ phase = "start"
    /\ stdout' = Append(stdout, Line(StartLine(routine), ""))
    /\ requests' = Append(requests, StartUrl(routine))
    /\ result' = Get(StartUrl(routine))
    /\ idx' = 1
    /\ page' = 1
    /\ phase' = "loop"
    /\ UNCHANGED <<options, remote, remote_url, headers, db, status, stage,
                   processed, run, snapshot>>

\* A routine's closing lines: write done! and return to handle, which calls
\* the next routine or returns.
Return(routine) ==
    /\ stdout' = Append(stdout, Line("done!", ""))
    /\ stage' = HandleNext(routine, options.skip_delete)
    /\ phase' = IF stage' = "" THEN "" ELSE "start"
    /\ status' = IF stage' = "" THEN "done" ELSE "running"
    /\ result' = NoResult
    /\ idx' = 0
    /\ page' = 0

InLoop(routine) == status = "running" /\ stage = routine /\ phase = "loop"
AtItem(routine) == InLoop(routine) /\ idx <= Len(result.results)
AtEnd(routine) == InLoop(routine) /\ idx > Len(result.results)

\* The end of a loop body that ran through.
Processed(routine) ==
    /\ processed' = Append(processed, [routine |-> routine, page |-> page,
                                        index |-> idx, data |-> result.results[idx]])
    /\ idx' = idx + 1

\* ------------------------------------------- categories, muscles, equipment

\* The try/except of sync_categories: update the row with this id, or insert it.
SaveCategory(d, data) ==
    IF data.id \in DOMAIN d.categories
    THEN [d EXCEPT !.categories[data.id].name = data.name]
    ELSE [d EXCEPT !.categories = @ @@ (data.id :> [name |-> data.name])]

\* The try/except of sync_muscles; the image URLs are printed, not stored.
SaveMuscle(d, data) ==
    IF data.id \in DOMAIN d.muscles
    THEN [d EXCEPT !.muscles[data.id] =
            [name |-> data.name, is_front |-> data.is_front, name_en |-> data.name_en]]
    ELSE [d EXCEPT !.muscles = @ @@
            (data.id :> [name |-> data.name, is_front |-> data.is_front,
                         name_en |-> data.name_en])]

\* The try/except of sync_equipment.
SaveEquipment(d, data) ==
    IF data.id \in DOMAIN d.equipment
    THEN [d EXCEPT !.equipment[data.id].name = data.name]
    ELSE [d EXCEPT !.equipment = @ @@ (data.id :> [name |-> data.name])]

SyncCategoriesStart ==
    Start("sync_categories")

SyncCategoriesItem ==
    /\ AtItem("sync_categories")
    /\ LET data == result.results[idx] IN
         /\ db' = SaveCategory(db, data)
         /\ stdout' = IF data.id \in DOMAIN db.categories THEN stdout
                      ELSE Append(stdout, Line("Saving new category", data.name))
    /\ Processed("sync_categories")
    /\ UNCHANGED <<options, remote, remote_url, headers, status, stage, phase,
                   result, page, requests, run, snapshot>>

\* sync_categories has one request and one for loop: what the answer's next
\* names is never fetched.
SyncCategoriesDone ==
    /\ AtEnd("sync_categories")
    /\ Return("sync_categories")
    /\ UNCHANGED <<options, remote, remote_url, headers, db, requests, processed,
                   run, snapshot>>

SyncMusclesStart ==
    Start("sync_muscles")

SyncMusclesItem ==
    /\ AtItem("sync_muscles")
    /\ LET data == result.results[idx] IN
         /\ db' = SaveMuscle(db, data)
         /\ stdout' = IF data.id \in DOMAIN db.muscles THEN stdout
                      ELSE stdout \o << Line("Saved new muscle", data.name),
                                        Line("WARNING", data.image_url_main),
                                        Line("WARNING", data.image_url_secondary) >>
    /\ Processed("sync_muscles")
    /\ UNCHANGED <<options, remote, remote_url, headers, status, stage, phase,
                   result, page, requests, run, snapshot>>

SyncMusclesDone ==
    /\ AtEnd("sync_muscles")
    /\ Return("sync_muscles")
    /\ UNCHANGED <<options, remote, remote_url, headers, db, requests, processed,
                   run, snapshot>>

SyncEquipmentStart ==
    Start("sync_equipment")

SyncEquipmentItem ==
    /\ AtItem("sync_equipment")
    /\ LET data == result.results[idx] IN
         /\ db' = SaveEquipment(db, data)
         /\ stdout' = IF data.id \in DOMAIN db.equipment THEN stdout
                      ELSE Append(stdout, Line("Saved new equipment", data.name))
    /\ Processed("sync_equipment")
    /\ UNCHANGED <<options, remote, remote_url, headers, status, stage, phase,
                   result, page, requests, run, snapshot>>

SyncEquipmentDone ==
    /\ AtEnd("sync_equipment")
    /\ Return("sync_equipment")
    /\ UNCHANGED <<options, remote, remote_url, headers, db, requests, processed,
                   run, snapshot>>

\* ------------------------------------------------------------ pagination

\* A loop that stops after its first page.
HasNextNever(res) == FALSE

\* if result['next']: of the two while loops.
HasNext(res) == res.next # <<>>

\* The tail of a while-loop iteration: fetch the next page, or leave the loop.
NextPage(routine) ==
    /\ AtEnd(routine)
    /\ IF HasNext(result)
       THEN /\ page' = page + 1
            /\ requests' = Append(requests, result.next[1])
            /\ result' = Get(result.next[1])
            /\ idx' = 1
            /\ UNCHANGED <<stdout, stage, phase, status>>
       ELSE /\ Return(routine)
            /\ UNCHANGED requests
    /\ UNCHANGED <<options, remote, remote_url, headers, db, processed, run, snapshot>>

\* ------------------------------------------------------------- exercises

\* Lookups that never raise.
MissingReferenceIgnored(d, data) == FALSE

\* Equipment.objects.get / Muscle.objects.get of an id with no local row
\* raises DoesNotExist, outside the try block.
MissingReference(d, data) ==
    \/ Ids(data.equipment) \ DOMAIN d.equipment # {}
    \/ Ids(data.muscles) \ DOMAIN d.muscles # {}
    \/ Ids(data.muscles_secondary) \ DOMAIN d.muscles # {}

\* RelatedManager.add(*objs): the old associations stay.
SetRelatedMerge(old, objs) == old \cup objs

\* RelatedManager.set(objs): the association set becomes objs.
SetRelated(old, objs) == objs

\* The fields sync_exercises writes to a translation.
TranslationFields(base, data) ==
    [exercise_base |-> base, name |-> data.name, description |-> data.description,
     language_id |-> data.language.id, license_id |-> data.license.id,
     license_author |-> data.license_author]

\* The translation exists and has a base: overwrite both.
UpdateExercise(d, data) ==
    LET base == d.exercises[data.uuid].exercise_base IN
    [d EXCEPT
       !.bases[base] =
          [@ EXCEPT !.category_id = data.category.id,
                    !.muscles = SetRelated(@, Ids(data.muscles)),
                    !.muscles_secondary = SetRelated(@, Ids(data.muscles_secondary)),
                    !.equipment = SetRelated(@, Ids(data.equipment))],
       !.exercises[data.uuid] = TranslationFields(base, data)]

\* A skip that saves the translation before it continues.
SkipExerciseSaved(d, data) ==
    [d EXCEPT !.exercises[data.uuid] = TranslationFields(NULL, data)]

\* The translation exists and has no base: warn and continue; the fields
\* assigned to the translation object are never saved.
SkipExercise(d, data) == d

\* Exercise.DoesNotExist: a new base, with a primary key from the sequence
\* and a uuid4 of its own, and a new translation on it.
CreateExercise(d, data) ==
    LET pk == d.base_seq + 1 IN
    [d EXCEPT
       !.base_seq = pk,
       !.bases = @ @@ (pk :> [uuid |-> Uuid4(pk),
                              category_id |-> data.category.id,
                              muscles |-> SetRelated({}, Ids(data.muscles)),
                              muscles_secondary |->
                                  SetRelated({}, Ids(data.muscles_secondary)),
                              equipment |-> SetRelated({}, Ids(data.equipment))]),
       !.exercises = @ @@ (data.uuid :> TranslationFields(pk, data))]

HasNoBase(d, uuid) == uuid \in DOMAIN d.exercises /\ d.exercises[uuid].exercise_base = NULL
HasBase(d, uuid) == uuid \in DOMAIN d.exercises /\ d.exercises[uuid].exercise_base # NULL

SyncExercisesStart ==
    Start("sync_exercises")

SyncExercisesItem ==
    /\ AtItem("sync_exercises")
    /\ LET data == result.results[idx] IN
         IF MissingReference(db, data)
         THEN /\ status' = "DoesNotExist"
              /\ UNCHANGED <<db, stdout, processed, idx>>
         ELSE /\ status' = status
              /\ Processed("sync_exercises")
              /\ IF HasBase(db, data.uuid)
                 THEN /\ db' = UpdateExercise(db, data)
                      /\ stdout' = stdout
                 ELSE IF HasNoBase(db, data.uuid)
                 THEN /\ db' = SkipExercise(db, data)
                      /\ stdout' = Append(stdout, Line("WARNING has no base", data.uuid))
                 ELSE /\ db' = CreateExercise(db, data)
                      /\ stdout' = Append(stdout, Line("Saved new exercise", data.name))
    /\ UNCHANGED <<options, remote, remote_url, headers, stage, phase, result,
                   page, requests, run, snapshot>>

SyncExercisesNext ==
    NextPage("sync_exercises")

\* -------------------------------------------------------------- deletion

\* A delete that leaves the row.
DeleteRowKept(table, uuid) == table

\* obj.delete() on the row of a table keyed by uuid.
DeleteRow(table, uuid) == [u \in DOMAIN table \ {uuid} |-> table[u]]

\* The rows of a table that do not hang on one of the bases in pks.
NotOn(table, pks) == [u \in {v \in DOMAIN table : table[v].exercise_base \notin pks} |-> table[u]]

\* ExerciseBase.objects.get(uuid=uuid).delete(): the base goes, and with it
\* the rows whose foreign key points at it (every translation, image and
\* video must reference a base).
DeleteBase(d, uuid) ==
    LET pks == {pk \in DOMAIN d.bases : d.bases[pk].uuid = uuid} IN
    [d EXCEPT
       !.bases = [pk \in DOMAIN d.bases \ pks |-> d.bases[pk]],
       !.exercises = NotOn(@, pks),
       !.images = NotOn(@, pks),
       !.videos = NotOn(@, pks)]

\* Whether the get() of the entry's branch finds a row.
Exists(d, data) ==
    CASE data.model_type = MODEL_BASE ->
            \E pk \in DOMAIN d.bases : d.bases[pk].uuid = data.uuid
      [] data.model_type = MODEL_TRANSLATION -> data.uuid \in DOMAIN d.exercises
      [] data.model_type = MODEL_IMAGE -> data.uuid \in DOMAIN d.images
      [] data.model_type = MODEL_VIDEO -> data.uuid \in DOMAIN d.videos
      [] OTHER -> FALSE

\* The if/elif chain of delete_entries on one entry of the log.
DeleteEntry(d, data) ==
    CASE data.model_type = MODEL_BASE -> DeleteBase(d, data.uuid)
      [] data.model_type = MODEL_TRANSLATION ->
            [d EXCEPT !.exercises = DeleteRow(@, data.uuid)]
      [] data.model_type = MODEL_IMAGE ->
            [d EXCEPT !.images = DeleteRow(@, data.uuid)]
      [] data.model_type = MODEL_VIDEO ->
            [d EXCEPT !.videos = DeleteRow(@, data.uuid)]
      [] OTHER -> d

DeleteEntriesStart ==
    Start("delete_entries")

DeleteEntriesItem ==
    /\ AtItem("delete_entries")
    /\ LET data == result.results[idx] IN
         /\ db' = DeleteEntry(db, data)
         /\ stdout' = IF Exists(db, data)
                      THEN Append(stdout, Line("Deleted", data))
                      ELSE stdout
    /\ Processed("delete_entries")
    /\ UNCHANGED <<options, remote, remote_url, headers, status, stage, phase,
                   result, page, requests, run, snapshot>>

DeleteEntriesNext ==
    NextPage("delete_entries")

\* ------------------------------------------------------------ environment

\* requests.get raises (the network, the remote): nothing catches it.
RequestFails ==
    /\ status = "running"
    /\ \/ /\ phase = "start"
          /\ stdout' = Append(stdout, Line(StartLine(stage), ""))
          /\ requests' = Append(requests, StartUrl(stage))
       \/ /\ stage \in {"sync_exercises", "delete_entries"}
          /\ AtEnd(stage)
          /\ HasNext(result)
          /\ requests' = Append(requests, result.next[1])
          /\ stdout' = stdout
    /\ status' = "RequestException"
    /\ UNCHANGED <<options, remote, remote_url, headers, db, stage, phase, result,
                   idx, page, processed, run, snapshot>>

\* The operator runs the command again, with the same options, against the
\* same remote data: a new process, a new Command object.
RunAgain ==
    /\ status = "done"
    /\ run < MaxRuns
    /\ run' = run + 1
    /\ snapshot' = db
    /\ status' = "idle"
    /\ remote_url' = DefaultRemoteUrl
    /\ headers' = <<>>
    /\ stage' = ""
    /\ phase' = ""
    /\ result' = NoResult
    /\ idx' = 0
    /\ page' = 0
    /\ requests' = <<>>
    /\ stdout' = <<>>
    /\ processed' = <<>>
    /\ UNCHANGED <<options, remote, db>>

Next ==
    \/ Handle
    \/ SyncCategoriesStart
    \/ SyncCategoriesItem
    \/ SyncCategoriesDone
    \/ SyncMusclesStart
    \/ SyncMusclesItem
    \/ SyncMusclesDone
    \/ SyncEquipmentStart
    \/ SyncEquipmentItem
    \/ SyncEquipmentDone
    \/ SyncExercisesStart
    \/ SyncExercisesItem
    \/ SyncExercisesNext
    \/ DeleteEntriesStart
    \/ DeleteEntriesItem
    \/ DeleteEntriesNext
    \/ RequestFails
    \/ RunAgain

Spec == Init /\ [][Next]_vars

\* ================================================================ claims

Routines ==
    <<"sync_categories", "sync_muscles", "sync_equipment", "sync_exercises",
      "delete_entries">>

Rank(routine) == IF routine = "" THEN Len(Routines) + 1
                 ELSE CHOOSE i \in 1..Len(Routines) : Routines[i] = routine

Started == status \notin {"idle", "CommandError"}

\* The routine was called in this run and has returned.
Returned(routine) ==
    /\ Started
    /\ Rank(stage) > Rank(routine)
    /\ routine = "delete_entries" => ~options.skip_delete

RECURSIVE Chain(_)
\* The pages the remote links from url on, each with the URL that yields it.
Chain(url) ==
    LET res == Get(url) IN
    <<[url |-> url, results |-> res.results]>>
        \o (IF res.next = <<>> THEN <<>> ELSE Chain(res.next[1]))

RECURSIVE Flatten(_, _, _)
\* The items of the pages from page number p on, in page and item order.
Flatten(routine, pages, p) ==
    IF p > Len(pages) THEN <<>>
    ELSE [i \in 1..Len(pages[p].results) |->
            [routine |-> routine, page |-> p, index |-> i,
             data |-> pages[p].results[i]]]
         \o Flatten(routine, pages, p + 1)

ChainUrls(routine) ==
    LET pages == Chain(StartUrl(routine)) IN [p \in 1..Len(pages) |-> pages[p].url]

ChainItems(routine) == Flatten(routine, Chain(StartUrl(routine)), 1)

\* What this run has fetched for, and processed in, a routine.
Fetched(routine) == SelectSeq(requests, LAMBDA u : u.path = StartUrl(routine).path)
Items(routine) == SelectSeq(processed, LAMBDA e : e.routine = routine)

Paginated == {"sync_exercises", "delete_entries"}

\* C1: in sync_exercises and delete_entries, over any chain of pages linked
\* by next, the items processed so far are the chain's items in page order
\* and in item order within a page, each page is requested once and in chain
\* order, the loop is on the page it requested last, and the routine returns
\* exactly after the page whose next is null: when it has returned, every
\* page was requested and every item processed, and nothing past the last.
C1_Pagination ==
    Started =>
      \A r \in Paginated :
        /\ IsPrefix(Items(r), ChainItems(r))
        /\ IsPrefix(Fetched(r), ChainUrls(r))
        /\ InLoop(r) =>
             /\ page = Len(Fetched(r))
             /\ result = Get(ChainUrls(r)[page])
        /\ Returned(r) =>
             /\ Items(r) = ChainItems(r)
             /\ Fetched(r) = ChainUrls(r)

\* C1 witness: a run that went through a chain of two pages in both loops.
C1_Witness ==
    /\ status = "done"
    /\ ~options.skip_delete
    /\ \A r \in Paginated : Len(ChainUrls(r)) >= 2 /\ Len(Items(r)) >= 2

\* C2: when one of the five routines has returned, every item of every page
\* of its endpoint has been processed.
C2_EveryPageReconciled ==
    \A i \in 1..Len(Routines) :
       Returned(Routines[i]) => Items(Routines[i]) = ChainItems(Routines[i])

\* The rows of a database, without the state of its key sequence.
Rows(d) == [d EXCEPT !.base_seq = 0]

\* C3: when the command has run to its end twice in a row against the same
\* remote data, the rows after the second run are the rows after the first.
C3_Idempotent ==
    (run = 2 /\ status = "done") => Rows(db) = Rows(snapshot)

\* The item the loop of a routine is about to process.
Data == result.results[idx]

\* An exercise item that names an equipment or muscle id with no local row.
RefersToMissingRow(data) ==
    \/ \E i \in 1..Len(data.equipment) : data.equipment[i].id \notin DOMAIN db.equipment
    \/ \E i \in 1..Len(data.muscles) : data.muscles[i].id \notin DOMAIN db.muscles
    \/ \E i \in 1..Len(data.muscles_secondary) :
          data.muscles_secondary[i].id \notin DOMAIN db.muscles

\* sync_exercises is at an item whose lookups succeed and whose translation
\* exists locally without a base.
AtNullBase ==
    /\ AtItem("sync_exercises")
    /\ ~RefersToMissingRow(Data)
    /\ Data.uuid \in DOMAIN db.exercises
    /\ db.exercises[Data.uuid].exercise_base = NULL

C5_DeletionReconciled ==
    [][ /\ AtItem("delete_entries") =>
             /\ ~Exists(db', Data)
             /\ ~Exists(db, Data) => (db' = db /\ stdout' = stdout)
             /\ status' = "running"
             /\ idx' = idx + 1
        /\ (Returned("delete_entries"))' =>
             \A e \in ToSet(ChainItems("delete_entries")) : ~Exists(db', e.data)
      ]_vars

\* C5 witness: a log was replayed in which one entry removed a row and
\* another found none.
C5_Witness ==
    /\ status = "done"
    /\ Len(SelectSeqBy(stdout, {"Deleted"})) = 1
    /\ Len(Items("delete_entries")) = 2

\* sync_exercises is at an item whose lookups succeed and whose translation
\* exists locally with a base.
AtUpdate ==
    /\ AtItem("sync_exercises")
    /\ ~RefersToMissingRow(Data)
    /\ Data.uuid \in DOMAIN db.exercises
    /\ db.exercises[Data.uuid].exercise_base # NULL

\* C6: when sync_exercises processes an item whose translation exists with
\* a base, that base's equipment, muscles and secondary muscles become
\* exactly the sets the item names, and its category the item's category.
C6_Replacement ==
    [][ AtUpdate =>
          LET base == db.exercises[Data.uuid].exercise_base IN
          /\ base \in DOMAIN db'.bases
          /\ db'.bases[base].equipment = {Data.equipment[i].id : i \in 1..Len(Data.equipment)}
          /\ db'.bases[base].muscles = {Data.muscles[i].id : i \in 1..Len(Data.muscles)}
          /\ db'.bases[base].muscles_secondary =
                {Data.muscles_secondary[i].id : i \in 1..Len(Data.muscles_secondary)}
          /\ db'.bases[base].category_id = Data.category.id
      ]_vars

\* C6 witness: the first exercise item of a first run was an existing
\* translation whose base had an equipment, a muscle and a category the
\* item does not name, and they are gone.
C6_Witness ==
    /\ run = 1
    /\ Len(Items("sync_exercises")) = 1
    /\ processed[Len(processed)].routine = "sync_exercises"
    /\ LET data == processed[Len(processed)].data IN
         /\ data.uuid \in DOMAIN snapshot.exercises
         /\ snapshot.exercises[data.uuid].exercise_base # NULL
         /\ LET base == snapshot.exercises[data.uuid].exercise_base IN
              /\ snapshot.bases[base].equipment \ db.bases[base].equipment # {}
              /\ snapshot.bases[base].muscles \ db.bases[base].muscles # {}
              /\ snapshot.bases[base].category_id # db.bases[base].category_id

\* The banner and done! lines of a whole run, in the order of the five stages.
StageLines ==
    << Line("*** Synchronizing categories...", ""), Line("done!", ""),
       Line("*** Synchronizing muscles...", ""), Line("done!", ""),
       Line("*** Synchronizing equipment...", ""), Line("done!", ""),
       Line("*** Synchronizing exercises...", ""), Line("done!", ""),
       Line("*** Deleting exercises that were removed on the server...", ""),
       Line("done!", "") >>

Banners == {StageLines[i].text : i \in 1..Len(StageLines)}

\* The stages start in the order categories, muscles, equipment, exercises,
\* deletion, each after the one before has finished; no exercise item is
\* processed before the three reference stages have returned; the deletion
\* stage is entered only without --dont-delete, and a run that reaches its
\* end has run it, last, exactly when --dont-delete is not set.
StagesInOrder ==
    /\ IsPrefix(SelectSeqBy(stdout, Banners), StageLines)
    /\ \A i, j \in 1..Len(processed) :
          i < j => Rank(processed[i].routine) <= Rank(processed[j].routine)
    /\ Items("sync_exercises") # <<>> =>
          /\ Rank(stage) >= Rank("sync_exercises")
          /\ Len(SelectSeqBy(stdout, {"done!"})) >= 3
    /\ (Fetched("delete_entries") # <<>> \/ stage = "delete_entries") =>
          ~options.skip_delete
    /\ status = "done" =>
          Len(SelectSeqBy(stdout, Banners)) =
             IF options.skip_delete THEN Len(StageLines) - 2 ELSE Len(StageLines)

\* C7: the stages run in order, each finishing before the next starts, the
\* deletion stage last and only without --dont-delete, so that once an
\* exercise item has been processed every category, muscle and equipment
\* item of the remote has been reconciled.
C7_StageOrder ==
    /\ StagesInOrder
    /\ Items("sync_exercises") # <<>> =>
          \A r \in {"sync_categories", "sync_muscles", "sync_equipment"} :
             Items(r) = ChainItems(r)

\* The values of --remote-url that are no well-formed URL.
Malformed == {u \in RemoteUrls : u.scheme = "file" \/ u.host = ""}

\* C8: with a malformed --remote-url the command ends in CommandError
\* before anything else happens: no request, no stage, no line, the
\* database and Command.remote_url as they were; and CommandError is
\* raised for no other reason.
C8_InvalidUrl ==
    /\ options.remote_url \in Malformed =>
          /\ status \in {"idle", "CommandError"}
          /\ requests = <<>> /\ stdout = <<>> /\ processed = <<>>
          /\ stage = "" /\ phase = ""
          /\ db = snapshot
          /\ remote_url = DefaultRemoteUrl
          /\ headers = <<>>
    /\ status = "CommandError" => options.remote_url \in Malformed

\* C8 witness: the command has failed on a malformed URL.
C8_Witness ==
    status = "CommandError" /\ options.remote_url.scheme = "file"

\* C9: a translation processed in this run that is in the database hangs on
\* a base that carries the remote base's uuid, so that two translations of
\* one remote base hang on one local base.
C9_StableKeys ==
    \A i, j \in 1..Len(processed) :
       LET a == processed[i].data
           b == processed[j].data IN
       ( /\ processed[i].routine = "sync_exercises"
         /\ processed[j].routine = "sync_exercises"
         /\ a.uuid \in DOMAIN db.exercises
         /\ b.uuid \in DOMAIN db.exercises
         /\ db.exercises[a.uuid].exercise_base # NULL
         /\ db.exercises[b.uuid].exercise_base # NULL
         /\ a.base_uuid = b.base_uuid )
       => /\ db.exercises[a.uuid].exercise_base = db.exercises[b.uuid].exercise_base
          /\ db.bases[db.exercises[a.uuid].exercise_base].uuid = a.base_uuid

Aborted == status \in {"RequestException", "DoesNotExist"}

\* C10: a failed request or an exercise item that names an equipment or
\* muscle id without a local row ends the run: such an item raises, the
\* step that raises writes nothing (what earlier items wrote stays, the
\* failing item leaves no row), and no step follows it: no item, no page,
\* no stage, no deletion.
C10_Abort ==
    [][ /\ ~Aborted
        /\ Aborted' =>
             /\ db' = db
             /\ processed' = processed
             /\ stage' = stage
        /\ (AtItem("sync_exercises") /\ RefersToMissingRow(Data)) =>
             status' = "DoesNotExist"
      ]_vars

\* C10 witness: a run aborted on a missing reference after an earlier
\* exercise item had been written.
C10_Witness ==
    /\ status = "DoesNotExist"
    /\ Items("sync_exercises") # <<>>
    /\ Rows(db) # Rows(snapshot)
    /\ ~options.skip_delete

====
